---- MODULE Spec2Model ----
(***************************************************************************)
(* Kubernetes client lifecycle of the kylon backend                        *)
(* (server/internal/infrastructure/kubernetes/client.kubernetes.go).       *)
(*                                                                         *)
(* The package keeps two package-level variables, clientSet and initOnce.  *)
(* InitKubernetesClient runs the connection sequence inside initOnce.Do    *)
(* and returns a LOCAL variable, initializationError; GetKubernetesClient  *)
(* reads clientSet without synchronisation.  Every call of either function *)
(* is a thread of this model; a call of InitKubernetesClient is split at   *)
(* each point where another goroutine can run in between.                  *)
(***************************************************************************)
EXTENDS Naturals, Sequences, FiniteSets

\* ------------------------------------------------------------------ bounds
NumInitCalls == 2
NumGetCallers == 2

InitCalls == 1..NumInitCalls
GetCallers == 1..NumGetCallers

\* --------------------------------------------------------------- constants
\* cfg.Kubernetes.KubeconfigPath as the callers may supply it: empty or set.
ConfigPaths == {"", "/etc/kylon/kubeconfig"}

\* clientcmd.RecommendedHomeFile
RecommendedHomeFile == "~/.kube/config"

ErrCodeK8sClientInitFailed == "K8S_CLIENT_INIT_FAILED"
ErrCodeK8sClientNotInitialized == "K8S_CLIENT_NOT_INITIALIZED"

\* The causes the three library calls report.
ErrNotInCluster == "rest.ErrNotInCluster"
ErrKubeconfigLoad == "clientcmd: cannot load kubeconfig"
ErrClientsetBuild == "kubernetes.NewForConfig failed"

\* ------------------------------------------------------------------ values
\* A nil error, and a nil *kubernetes.Clientset / *rest.Config.
NilError == [code |-> "nil", message |-> "nil", path |-> "nil", err |-> "nil"]
NilClient == [id |-> 0, config |-> "nil"]
NilConfig == "nil"

\* customerrors.NewCustomError(code, message, err); `path` is the %s argument
\* of the fmt.Sprintf that builds the message ("nil" when there is none).
NewCustomError(code, message, path, err) ==
    [code |-> code, message |-> message, path |-> path, err |-> err]

\* (*CustomError).Unwrap
Unwrap(e) == e.err

VARIABLES
    initOnce,            \* sync.Once: "fresh", "running" (f executing), "done"
    clientSet,           \* the package variable clientSet
    pc,                  \* position of each InitKubernetesClient call
    cfg,                 \* cfg.Kubernetes.KubeconfigPath each call was given
    restConfig,          \* local restConfig of the Do closure
    err,                 \* local err of the Do closure
    initializationError, \* local initializationError of each call
    initResult,          \* what each call returned
    arrival,             \* state of initOnce when the call reached initOnce.Do
    getResult,           \* what each caller's latest GetKubernetesClient returned
    getAt,               \* the circumstances of that latest call
    attempts             \* log of the connection steps executed, in order

clientVars == <<initOnce, clientSet, pc, cfg, restConfig, err,
                initializationError, initResult, arrival, getResult, getAt,
                attempts>>

\* The health handler (server/internal/app/handlers/health.handlers.go).
VARIABLES
    db,                  \* the *gorm.DB the handler was built with, or nil
    kubeClient,          \* the *kubernetes.Clientset it was built with, or nil
    hpc,                 \* position of each request in the handler
    reqCtx,              \* c.Request.Context() of each request
    clock,               \* time the request has spent in the handler so far
    response,            \* local response (HealthCheckResponse)
    overallHTTPStatus,   \* local overallHTTPStatus
    overallMessage,      \* local overallMessage
    probes,              \* log of the probes the request has run
    sent                 \* the JSON responses written for the request

healthVars == <<db, kubeClient, hpc, reqCtx, clock, response,
                overallHTTPStatus, overallMessage, probes, sent>>

\* utils.ErrorResponse (package utils, response utilities).
VARIABLES
    errIn,               \* the error ErrorResponse is called with
    jsonOut              \* the c.JSON calls it has made

responseVars == <<errIn, jsonOut>>

\* ClusterServiceImpl.RegisterCluster (services/cluster.service.go).
VARIABLES
    svcIn,               \* the arguments name and kubeconfigContent
    svcPc,               \* position of the call
    cluster,             \* local cluster
    svcOut,              \* the returned (*models.Cluster, error)
    repoLog              \* the calls made on clusterRepo.Create

serviceVars == <<svcIn, svcPc, cluster, svcOut, repoLog>>

\* config.LoadConfig (infrastructure/config/config.config.go).
VARIABLES
    loadOnce,            \* package variable once
    loadCfg,             \* package variable cfg
    loadErr,             \* package variable loadErr
    lpc,                 \* position of each LoadConfig call
    appEnv,              \* local appEnv of the call running the closure
    loadArrival,         \* state of once when the call reached once.Do
    loadResult,          \* what each call returned
    reads                \* number of cleanenv.ReadConfig calls made

configVars == <<loadOnce, loadCfg, loadErr, lpc, appEnv, loadArrival,
                loadResult, reads>>

\* main (cmd/main.go), the routes (routes/router.go) and the cluster
\* endpoint.
VARIABLES
    mpc,                 \* position of main
    alive,               \* whether each dependency answers at present
    routes,              \* the handlers InitializeRoutes has registered
    seen,                \* `alive` when each health request was served
    creply               \* what each cluster registration request got

mainVars == <<mpc, alive, routes, seen, creply>>

restVars == <<responseVars, serviceVars, configVars, mainVars>>

vars == <<clientVars, healthVars, restVars>>

\* ------------------------------------------------------- the client handle
\* The handle state of the package: the once-gate together with clientSet.
HandleState ==
    IF initOnce = "fresh" THEN "Uninitialized"
    ELSE IF initOnce = "running" THEN "Initializing"
    ELSE IF clientSet # NilClient THEN "Ready"
    ELSE "Failed"

\* Some InitKubernetesClient call has returned nil.
SomeInitReturnedNil ==
    \E c \in InitCalls : pc[c] = "returned" /\ initResult[c] = NilError

\* Some InitKubernetesClient call has returned at all.
SomeInitReturned == \E c \in InitCalls : pc[c] = "returned"

\* ------------------------------------------------------------- sync.Once
\* Mutation: the gate is tested without the lock, so a caller that arrives
\* while the closure is executing runs it as well.
OnceShouldRun_Unlocked(once) == once \in {"fresh", "running"}

\* Mutation: the gate is never closed, so a call after completion runs again.
OnceShouldRun_Reopened(once) == once \in {"fresh", "done"}

\* initOnce.Do(f): f runs for the caller that finds the gate fresh.
OnceShouldRun(once) == once = "fresh"

\* Mutation: a caller that finds the closure executing does not wait for it.
OnceMustWait_Never(once) == FALSE

\* initOnce.Do(f): a caller that finds f executing waits for it to return.
OnceMustWait(once) == once = "running"

\* ---------------------------------------------------- connection strategy
\* Mutation: the kubeconfig fallback is taken whatever InClusterConfig gave.
NeedsKubeconfigFallback_Always(inClusterOk) == TRUE

\* `if err != nil` after rest.InClusterConfig(): the kubeconfig fallback.
NeedsKubeconfigFallback(inClusterOk) == ~inClusterOk

\* Mutation: the empty configured path is passed on as it is.
ResolveKubeconfigPath_NoDefault(p) == p

\* kubeConfigPath: the configured path, or the recommended home file.
ResolveKubeconfigPath(p) == IF p = "" THEN RecommendedHomeFile ELSE p

Step(c, strategy, ok, path) ==
    [call |-> c, strategy |-> strategy, ok |-> ok, path |-> path]

ClientInit ==
    /\ initOnce = "fresh"
    /\ clientSet = NilClient
    /\ pc = [c \in InitCalls |-> "idle"]
    /\ cfg = [c \in InitCalls |-> ""]
    /\ restConfig = [c \in InitCalls |-> NilConfig]
    /\ err = [c \in InitCalls |-> "nil"]
    /\ initializationError = [c \in InitCalls |-> NilError]
    /\ initResult = [c \in InitCalls |-> NilError]
    /\ arrival = [c \in InitCalls |-> "none"]
    /\ getResult = [g \in GetCallers |-> [client |-> NilClient, err |-> NilError]]
    /\ getAt = [g \in GetCallers |->
                  [called |-> FALSE, state |-> "Uninitialized",
                   nilReturned |-> FALSE]]
    /\ attempts = <<>>

\* ------------------------------------------------- InitKubernetesClient
\* The call: `var initializationError error`, then initOnce.Do is entered.
\* The first caller starts running the closure, a caller arriving while it
\* runs blocks, and a caller arriving after it has returned skips it.
InitKubernetesClient_Call(c, p) ==
    /\ pc[c] = "idle"
    /\ cfg' = [cfg EXCEPT ![c] = p]
    /\ initializationError' = [initializationError EXCEPT ![c] = NilError]
    /\ arrival' = [arrival EXCEPT ![c] = initOnce]
    /\ IF OnceShouldRun(initOnce)
         THEN /\ initOnce' = "running"
              /\ pc' = [pc EXCEPT ![c] = "inCluster"]
         ELSE /\ UNCHANGED initOnce
              /\ pc' = [pc EXCEPT ![c] =
                          IF OnceMustWait(initOnce) THEN "blocked" ELSE "return"]
    /\ UNCHANGED <<clientSet, restConfig, err, initResult, getResult, getAt,
                   attempts>>

\* A blocked caller of initOnce.Do resumes once the closure has returned.
OnceDo_Unblock(c) ==
    /\ pc[c] = "blocked"
    /\ ~OnceMustWait(initOnce)
    /\ pc' = [pc EXCEPT ![c] = "return"]
    /\ UNCHANGED <<initOnce, clientSet, cfg, restConfig, err,
                   initializationError, initResult, arrival, getResult, getAt,
                   attempts>>

\* restConfig, err = rest.InClusterConfig()
TryInClusterConfig(c, ok) ==
    /\ pc[c] = "inCluster"
    /\ attempts' = Append(attempts, Step(c, "inCluster", ok, "nil"))
    /\ restConfig' = [restConfig EXCEPT ![c] =
                        IF ok THEN "inClusterConfig" ELSE NilConfig]
    /\ err' = [err EXCEPT ![c] = IF ok THEN "nil" ELSE ErrNotInCluster]
    /\ pc' = [pc EXCEPT ![c] =
                IF NeedsKubeconfigFallback(ok) THEN "kubeconfig"
                ELSE "newForConfig"]
    /\ UNCHANGED <<initOnce, clientSet, cfg, initializationError, initResult,
                   arrival, getResult, getAt>>

\* Mutation: the failure of the fallback wraps the error that was in `err`
\* before it, the one of the in-cluster attempt.
TryKubeconfig_WrapsEarlierErr(c, ok) ==
    /\ pc[c] = "kubeconfig"
    /\ LET path == ResolveKubeconfigPath(cfg[c]) IN
         /\ attempts' = Append(attempts, Step(c, "kubeconfig", ok, path))
         /\ IF ok
              THEN /\ restConfig' = [restConfig EXCEPT ![c] = path]
                   /\ err' = [err EXCEPT ![c] = "nil"]
                   /\ pc' = [pc EXCEPT ![c] = "newForConfig"]
                   /\ UNCHANGED initializationError
              ELSE /\ restConfig' = [restConfig EXCEPT ![c] = NilConfig]
                   /\ err' = [err EXCEPT ![c] = ErrKubeconfigLoad]
                   /\ initializationError' =
                        [initializationError EXCEPT ![c] =
                           NewCustomError(ErrCodeK8sClientInitFailed,
                               "Failed to create Kubernetes config from kubeconfig",
                               path, err[c])]
                   /\ pc' = [pc EXCEPT ![c] = "exitDo"]
    /\ UNCHANGED <<initOnce, clientSet, cfg, initResult, arrival, getResult,
                   getAt>>

\* The fallback: resolve the path, clientcmd.BuildConfigFromFlags("", path);
\* on failure record the error and leave the closure.
TryKubeconfig(c, ok) ==
    /\ pc[c] = "kubeconfig"
    /\ LET path == ResolveKubeconfigPath(cfg[c]) IN
         /\ attempts' = Append(attempts, Step(c, "kubeconfig", ok, path))
         /\ IF ok
              THEN /\ restConfig' = [restConfig EXCEPT ![c] = path]
                   /\ err' = [err EXCEPT ![c] = "nil"]
                   /\ pc' = [pc EXCEPT ![c] = "newForConfig"]
                   /\ UNCHANGED initializationError
              ELSE /\ restConfig' = [restConfig EXCEPT ![c] = NilConfig]
                   /\ err' = [err EXCEPT ![c] = ErrKubeconfigLoad]
                   /\ initializationError' =
                        [initializationError EXCEPT ![c] =
                           NewCustomError(ErrCodeK8sClientInitFailed,
                               "Failed to create Kubernetes config from kubeconfig",
                               path, ErrKubeconfigLoad)]
                   /\ pc' = [pc EXCEPT ![c] = "exitDo"]
    /\ UNCHANGED <<initOnce, clientSet, cfg, initResult, arrival, getResult,
                   getAt>>

\* Mutation: a failed construction from the in-cluster configuration falls
\* back to the kubeconfig strategy instead of ending the initialization.
NewForConfig_FallsBack(c, ok) ==
    /\ pc[c] = "newForConfig"
    /\ attempts' = Append(attempts, Step(c, "newForConfig", ok, "nil"))
    /\ IF ok
         THEN /\ clientSet' = [id |-> Len(attempts) + 1, config |-> restConfig[c]]
              /\ err' = [err EXCEPT ![c] = "nil"]
              /\ UNCHANGED initializationError
         ELSE /\ clientSet' = NilClient
              /\ err' = [err EXCEPT ![c] = ErrClientsetBuild]
              /\ initializationError' =
                   [initializationError EXCEPT ![c] =
                      NewCustomError(ErrCodeK8sClientInitFailed,
                          "Failed to create Kubernetes clientset",
                          "nil", ErrClientsetBuild)]
    /\ pc' = [pc EXCEPT ![c] =
                IF ~ok /\ restConfig[c] = "inClusterConfig" THEN "kubeconfig"
                ELSE "exitDo"]
    /\ UNCHANGED <<initOnce, cfg, restConfig, initResult, arrival, getResult,
                   getAt>>

\* clientSet, err = kubernetes.NewForConfig(restConfig); on failure the
\* library returns a nil clientset, and the error is recorded.
NewForConfig(c, ok) ==
    /\ pc[c] = "newForConfig"
    /\ attempts' = Append(attempts, Step(c, "newForConfig", ok, "nil"))
    /\ IF ok
         THEN /\ clientSet' = [id |-> Len(attempts) + 1, config |-> restConfig[c]]
              /\ err' = [err EXCEPT ![c] = "nil"]
              /\ UNCHANGED initializationError
         ELSE /\ clientSet' = NilClient
              /\ err' = [err EXCEPT ![c] = ErrClientsetBuild]
              /\ initializationError' =
                   [initializationError EXCEPT ![c] =
                      NewCustomError(ErrCodeK8sClientInitFailed,
                          "Failed to create Kubernetes clientset",
                          "nil", ErrClientsetBuild)]
    /\ pc' = [pc EXCEPT ![c] = "exitDo"]
    /\ UNCHANGED <<initOnce, cfg, restConfig, initResult, arrival, getResult,
                   getAt>>

\* The closure returns: sync.Once marks itself done and releases the waiters.
OnceDo_Exit(c) ==
    /\ pc[c] = "exitDo"
    /\ initOnce' = "done"
    /\ pc' = [pc EXCEPT ![c] = "return"]
    /\ UNCHANGED <<clientSet, cfg, restConfig, err, initializationError,
                   initResult, arrival, getResult, getAt, attempts>>

\* return initializationError; the locals of the call go out of scope.
InitKubernetesClient_Return(c) ==
    /\ pc[c] = "return"
    /\ initResult' = [initResult EXCEPT ![c] = initializationError[c]]
    /\ pc' = [pc EXCEPT ![c] = "returned"]
    /\ cfg' = [cfg EXCEPT ![c] = ""]
    /\ restConfig' = [restConfig EXCEPT ![c] = NilConfig]
    /\ err' = [err EXCEPT ![c] = "nil"]
    /\ initializationError' = [initializationError EXCEPT ![c] = NilError]
    /\ UNCHANGED <<initOnce, clientSet, arrival, getResult, getAt, attempts>>

\* -------------------------------------------------- GetKubernetesClient
\* The not-initialised error: NewCustomError(code, message, nil).
NotInitializedError ==
    NewCustomError(ErrCodeK8sClientNotInitialized,
        "Kubernetes client has not been initialized. Call InitKubernetesClient first.",
        "nil", "nil")

\* Mutation: the nil test is missing; clientSet is returned with a nil error.
GetReturn_Unchecked(cs) == [client |-> cs, err |-> NilError]

\* Mutation: a copy of the clientset is handed out instead of the stored one.
GetReturn_Copy(cs) ==
    IF cs = NilClient
      THEN [client |-> NilClient, err |-> NotInitializedError]
      ELSE [client |-> [id |-> cs.id + 1, config |-> cs.config],
            err |-> NilError]

\* The pair GetKubernetesClient returns for a value of clientSet.
GetReturn(cs) ==
    IF cs = NilClient
      THEN [client |-> NilClient, err |-> NotInitializedError]
      ELSE [client |-> cs, err |-> NilError]

\* What a call of GetKubernetesClient notes down about itself.
GetNote ==
    [called |-> TRUE, state |-> HandleState,
     nilReturned |-> SomeInitReturnedNil]

\* Mutation: the getter goes through the once-gate itself; it waits while
\* the closure is executing and closes a gate it finds fresh.
GetKubernetesClient_ThroughOnce(g) ==
    /\ ~OnceMustWait(initOnce)
    /\ initOnce' = "done"
    /\ getResult' = [getResult EXCEPT ![g] = GetReturn(clientSet)]
    /\ getAt' = [getAt EXCEPT ![g] = GetNote]
    /\ UNCHANGED <<clientSet, pc, cfg, restConfig, err, initializationError,
                   initResult, arrival, attempts>>

\* One call of GetKubernetesClient: a read of clientSet and nothing else.
GetKubernetesClient(g) ==
    /\ getResult' = [getResult EXCEPT ![g] = GetReturn(clientSet)]
    /\ getAt' = [getAt EXCEPT ![g] = GetNote]
    /\ UNCHANGED <<initOnce, clientSet, pc, cfg, restConfig, err,
                   initializationError, initResult, arrival, attempts>>

\* =================================================================
\* The health handler
\* =================================================================
\* ------------------------------------------------------------------ bounds
\* Two requests are in flight: what one invocation of the handler can do to
\* another shows between two of them.
NumRequests == 2
\* The latest time, counted from its arrival, at which a request's own
\* context ends (deadline or cancellation), when it ends at all.
MaxRequestTime == 2
\* The longest a probe takes to answer when nothing interrupts it.
MaxProbeTime == 3

Requests == 1..NumRequests
DependencyNames == {"database", "kubernetes"}
ProbeTimes == 0..MaxProbeTime

\* --------------------------------------------------------------- constants
StatusOK == 200
StatusInternalServerError == 500
\* context.WithTimeout(c.Request.Context(), 2*time.Second), 3*time.Second
DBPingTimeout == 2
KubeListTimeout == 3

ErrCodeInternal == "INTERNAL_ERROR"
NilHandle == "nil"

\* http.StatusText for the two codes the handler uses.
StatusText(code) ==
    IF code = StatusOK THEN "OK"
    ELSE IF code = StatusInternalServerError THEN "Internal Server Error"
    ELSE ""

\* The errors the probed libraries report on their own.
ErrPool == "sql: database is closed"
ErrPing == "dial tcp: connection refused"
ErrList == "the server is currently unable to handle the request"
DeadlineExceeded == "context deadline exceeded"
Canceled == "context canceled"

\* ---------------------------------------------------------------- contexts
\* A context: whether it ever ends, when, and the error it then carries.
Background == [limited |-> FALSE, doneAt |-> 0, cause |-> "nil"]

RequestContexts ==
    {Background} \cup
    {[limited |-> TRUE, doneAt |-> t, cause |-> e] :
        t \in 0..MaxRequestTime, e \in {DeadlineExceeded, Canceled}}

\* Mutation: the timeout context is derived from context.Background(), so
\* the request's own deadline and cancellation are lost.
WithTimeout_Detached(parent, now, timeout) ==
    [limited |-> TRUE, doneAt |-> now + timeout, cause |-> DeadlineExceeded]

\* context.WithTimeout(parent, timeout) taken at time `now`: the child ends
\* when the parent does, or after the timeout, whichever is first.
WithTimeout(parent, now, timeout) ==
    IF parent.limited /\ parent.doneAt <= now + timeout
      THEN parent
      ELSE [limited |-> TRUE, doneAt |-> now + timeout,
            cause |-> DeadlineExceeded]

\* A context-bound call (sqlDB.PingContext, Namespaces().List) started at
\* `now` that would answer after d with `ok`: it answers if that is before
\* the context ends, and else returns the context's error when it ends.
ProbeCall(ctx, now, d, ok, failure) ==
    IF ctx.limited /\ ctx.doneAt <= now + d
      THEN [end |-> IF ctx.doneAt > now THEN ctx.doneAt ELSE now,
            err |-> ctx.cause]
      ELSE [end |-> now + d, err |-> IF ok THEN "nil" ELSE failure]

\* ------------------------------------------------------------ the report
\* A dependency entry: "N/A", "UP" or fmt.Sprintf("DOWN - %s", detail).
NotChecked == [state |-> "N/A", detail |-> ""]
Up == [state |-> "UP", detail |-> ""]

Down(detail) == [state |-> "DOWN", detail |-> detail]

\* response := HealthCheckResponse{...} for request r.
InitialResponse(r) ==
    [Status |-> StatusText(StatusOK),
     Message |-> "Service is healthy",
     Application |-> "cfg.App.Name",
     Version |-> "cfg.App.Version",
     Environment |-> "cfg.App.Env",
     Timestamp |-> r,
     Database |-> NotChecked,
     Kubernetes |-> NotChecked]

\* What the locals hold while no request is in the handler.
NoResponse ==
    [Status |-> "", Message |-> "", Application |-> "", Version |-> "",
     Environment |-> "", Timestamp |-> 0, Database |-> NotChecked,
     Kubernetes |-> NotChecked]

\* An entry of the probe log.
ProbeRun(name, start, ctx, result) ==
    [name |-> name, start |-> start, deadline |-> ctx.doneAt,
     end |-> result.end, err |-> result.err]

\* ----------------------------------------------------- response utilities
\* An error value is nil, a *CustomError or any other error; the last two
\* may wrap a further error (Unwrap).
NoErr == [kind |-> "nil"]

\* customerrors.NewCustomError(code, message, err, httpStatus, data)
NewCustomErrorWithStatus(code, message, cause, httpStatus, data) ==
    [kind |-> "custom", Code |-> code, Message |-> message, Err |-> cause,
     HTTPStatus |-> httpStatus, Data |-> data]

\* An error that is not a CustomError, as fmt.Errorf("...: %w", cause) or
\* errors.New(text) make it.
PlainError(text, cause) == [kind |-> "plain", text |-> text, Err |-> cause]

\* Mutation: a type assertion on the error itself instead of errors.As.
As_NoUnwrap(e) == IF e.kind = "custom" THEN e ELSE NoErr

\* errors.As(err, &customErr): the first *CustomError of the chain of err,
\* or nil when there is none.
RECURSIVE As(_)
As(e) ==
    IF e.kind = "nil" THEN NoErr
    ELSE IF e.kind = "custom" THEN e
    ELSE As(e.Err)

\* utils.SuccessResponse: c.JSON(statusCode, APIResponse{true, message, data})
SuccessResponse(statusCode, message, data) ==
    [status |-> statusCode,
     body |-> [success |-> TRUE, message |-> message, data |-> <<data>>,
               error |-> <<>>]]

\* utils.ErrorResponse: c.JSON with the status, code, message and data of
\* the CustomError found in the error, or the generic internal error when
\* there is none.
ErrorResponse(e) ==
    LET customErr == As(e)
        found == customErr.kind = "custom"
        code == IF found
                  THEN (IF customErr.Code = "" THEN ErrCodeInternal
                        ELSE customErr.Code)
                  ELSE ErrCodeInternal
        message == IF found
                     THEN (IF customErr.Message = ""
                             THEN "An unspecified custom error occurred."
                             ELSE customErr.Message)
                     ELSE "An unexpected internal error occurred."
        statusCode == IF found THEN customErr.HTTPStatus
                      ELSE StatusInternalServerError
        data == IF found THEN customErr.Data ELSE "nil"
    IN  [status |-> statusCode,
         body |-> [success |-> FALSE, message |-> message, data |-> <<>>,
                   error |-> <<[code |-> code, message |-> message,
                                data |-> data]>>]]

\* --------------------------------------------------------- the handler
\* Mutation: a nil database handle is reported as a failed dependency.
DatabaseCheck_NilIsDown(st, ctx, poolOk, d, ok) ==
    IF db # NilHandle
      THEN LET tctx == WithTimeout(ctx, st.clock, DBPingTimeout)
               ping == ProbeCall(tctx, st.clock, d, ok, ErrPing)
           IN  IF ~poolOk
                 THEN [st EXCEPT
                         !.response.Database = Down("Connection Pool Error"),
                         !.status = StatusInternalServerError,
                         !.message =
                           "Service unhealthy: Database connection pool issue",
                         !.probes = Append(@,
                             ProbeRun("db.DB", st.clock, tctx,
                                 [end |-> st.clock, err |-> ErrPool]))]
                 ELSE IF ping.err # "nil"
                   THEN [st EXCEPT
                           !.response.Database = Down(ping.err),
                           !.status = StatusInternalServerError,
                           !.message =
                             "Service unhealthy: Database connectivity failed",
                           !.clock = ping.end,
                           !.probes = Append(@,
                               ProbeRun("database", st.clock, tctx, ping))]
                   ELSE [st EXCEPT
                           !.response.Database = Up,
                           !.clock = ping.end,
                           !.probes = Append(@,
                               ProbeRun("database", st.clock, tctx, ping))]
      ELSE [st EXCEPT
              !.response.Database = Down("not configured"),
              !.status = StatusInternalServerError,
              !.message = "Service unhealthy: Database connectivity failed"]

\* The database block, lines 76-96: what it makes of the locals.  `st` holds
\* the locals [response, status, message, clock, probes].
DatabaseCheck(st, ctx, poolOk, d, ok) ==
    IF db # NilHandle
      THEN LET tctx == WithTimeout(ctx, st.clock, DBPingTimeout)
               ping == ProbeCall(tctx, st.clock, d, ok, ErrPing)
           IN  IF ~poolOk
                 THEN [st EXCEPT
                         !.response.Database = Down("Connection Pool Error"),
                         !.status = StatusInternalServerError,
                         !.message =
                           "Service unhealthy: Database connection pool issue",
                         !.probes = Append(@,
                             ProbeRun("db.DB", st.clock, tctx,
                                 [end |-> st.clock, err |-> ErrPool]))]
                 ELSE IF ping.err # "nil"
                   THEN [st EXCEPT
                           !.response.Database = Down(ping.err),
                           !.status = StatusInternalServerError,
                           !.message =
                             "Service unhealthy: Database connectivity failed",
                           !.clock = ping.end,
                           !.probes = Append(@,
                               ProbeRun("database", st.clock, tctx, ping))]
                   ELSE [st EXCEPT
                           !.response.Database = Up,
                           !.clock = ping.end,
                           !.probes = Append(@,
                               ProbeRun("database", st.clock, tctx, ping))]
      ELSE st

\* Mutation: the Kubernetes block is skipped once an earlier check failed.
KubernetesCheck_ShortCircuit(st, ctx, d, ok) ==
    IF kubeClient # NilHandle /\ st.status = StatusOK
      THEN LET tctx == WithTimeout(ctx, st.clock, KubeListTimeout)
               list == ProbeCall(tctx, st.clock, d, ok, ErrList)
               ran == [st EXCEPT
                         !.clock = list.end,
                         !.probes = Append(@,
                             ProbeRun("kubernetes", st.clock, tctx, list))]
           IN  IF list.err # "nil"
                 THEN [ran EXCEPT
                         !.response.Kubernetes = Down(list.err),
                         !.status = StatusInternalServerError,
                         !.message =
                           "Service unhealthy: Kubernetes API communication failed"]
                 ELSE [ran EXCEPT !.response.Kubernetes = Up]
      ELSE st

\* Mutation: a successful listing sets the overall status back to OK.
KubernetesCheck_ResetsOnSuccess(st, ctx, d, ok) ==
    IF kubeClient # NilHandle
      THEN LET tctx == WithTimeout(ctx, st.clock, KubeListTimeout)
               list == ProbeCall(tctx, st.clock, d, ok, ErrList)
               ran == [st EXCEPT
                         !.clock = list.end,
                         !.probes = Append(@,
                             ProbeRun("kubernetes", st.clock, tctx, list))]
           IN  IF list.err # "nil"
                 THEN LET down == [ran EXCEPT
                                     !.response.Kubernetes = Down(list.err)]
                      IN  IF st.status = StatusOK
                            THEN [down EXCEPT
                                    !.status = StatusInternalServerError,
                                    !.message =
                                      "Service unhealthy: Kubernetes API communication failed"]
                            ELSE down
                 ELSE [ran EXCEPT !.response.Kubernetes = Up,
                                  !.status = StatusOK,
                                  !.message = "Service is healthy"]
      ELSE st

\* Mutation: a failed listing sets the overall status and message without
\* looking at what the database block left.
KubernetesCheck_Overwrites(st, ctx, d, ok) ==
    IF kubeClient # NilHandle
      THEN LET tctx == WithTimeout(ctx, st.clock, KubeListTimeout)
               list == ProbeCall(tctx, st.clock, d, ok, ErrList)
               ran == [st EXCEPT
                         !.clock = list.end,
                         !.probes = Append(@,
                             ProbeRun("kubernetes", st.clock, tctx, list))]
           IN  IF list.err # "nil"
                 THEN [ran EXCEPT
                         !.response.Kubernetes = Down(list.err),
                         !.status = StatusInternalServerError,
                         !.message =
                           "Service unhealthy: Kubernetes API communication failed"]
                 ELSE [ran EXCEPT !.response.Kubernetes = Up]
      ELSE st

\* The Kubernetes block, lines 99-118.
KubernetesCheck(st, ctx, d, ok) ==
    IF kubeClient # NilHandle
      THEN LET tctx == WithTimeout(ctx, st.clock, KubeListTimeout)
               list == ProbeCall(tctx, st.clock, d, ok, ErrList)
               ran == [st EXCEPT
                         !.clock = list.end,
                         !.probes = Append(@,
                             ProbeRun("kubernetes", st.clock, tctx, list))]
           IN  IF list.err # "nil"
                 THEN LET down == [ran EXCEPT
                                     !.response.Kubernetes = Down(list.err)]
                      IN  IF st.status = StatusOK
                            THEN [down EXCEPT
                                    !.status = StatusInternalServerError,
                                    !.message =
                                      "Service unhealthy: Kubernetes API communication failed"]
                            ELSE down
                 ELSE [ran EXCEPT !.response.Kubernetes = Up]
      ELSE st

\* Lines 120-122: the overall status and message go into the response.
Finalize(st) ==
    [st EXCEPT !.response.Status = StatusText(st.status),
               !.response.Message = st.message]

\* Mutation: the error envelope of an unhealthy report is sent with the
\* status http.StatusOK.
Respond_AlwaysOK(st) ==
    IF st.status # StatusOK
      THEN <<ErrorResponse(NewCustomErrorWithStatus(ErrCodeInternal,
                 st.message, NoErr, StatusOK, st.response))>>
      ELSE <<SuccessResponse(StatusOK, st.response.Message, st.response)>>

\* Mutation: the `else` is missing, so the success response is written
\* after the error envelope as well.
Respond_NoElse(st) ==
    (IF st.status # StatusOK
       THEN <<ErrorResponse(NewCustomErrorWithStatus(ErrCodeInternal,
                  st.message, NoErr, st.status, st.response))>>
       ELSE <<>>)
    \o <<SuccessResponse(StatusOK, st.response.Message, st.response)>>

\* Lines 124-138: the responses written for the finished locals.
Respond(st) ==
    IF st.status # StatusOK
      THEN <<ErrorResponse(NewCustomErrorWithStatus(ErrCodeInternal,
                 st.message, NoErr, st.status, st.response))>>
      ELSE <<SuccessResponse(StatusOK, st.response.Message, st.response)>>

\* The locals of request r as one record, and back.
Locals(r) ==
    [response |-> response[r], status |-> overallHTTPStatus[r],
     message |-> overallMessage[r], clock |-> clock[r], probes |-> probes[r]]

\* Mutation: overallHTTPStatus and overallMessage are variables of the
\* enclosing function, one for all invocations.
StoreLocals_Shared(r, st) ==
    /\ response' = [response EXCEPT ![r] = st.response]
    /\ overallHTTPStatus' = [q \in Requests |-> st.status]
    /\ overallMessage' = [q \in Requests |-> st.message]
    /\ clock' = [clock EXCEPT ![r] = st.clock]
    /\ probes' = [probes EXCEPT ![r] = st.probes]

StoreLocals(r, st) ==
    /\ response' = [response EXCEPT ![r] = st.response]
    /\ overallHTTPStatus' = [overallHTTPStatus EXCEPT ![r] = st.status]
    /\ overallMessage' = [overallMessage EXCEPT ![r] = st.message]
    /\ clock' = [clock EXCEPT ![r] = st.clock]
    /\ probes' = [probes EXCEPT ![r] = st.probes]

RequestsIdle ==
    /\ hpc = [r \in Requests |-> "idle"]
    /\ reqCtx = [r \in Requests |-> Background]
    /\ clock = [r \in Requests |-> 0]
    /\ response = [r \in Requests |-> NoResponse]
    /\ overallHTTPStatus = [r \in Requests |-> StatusOK]
    /\ overallMessage = [r \in Requests |-> ""]
    /\ probes = [r \in Requests |-> <<>>]
    /\ sent = [r \in Requests |-> <<>>]

\* No handles and no request: the handler is not in use.
HealthQuiet ==
    /\ db = NilHandle
    /\ kubeClient = NilHandle
    /\ RequestsIdle

\* A request arrives with its context; lines 53-96: the response and the
\* overall status are initialised and the database block runs, waiting for
\* the ping no longer than its context allows.
HealthCheck_Database(r, ctx, poolOk, d, ok) ==
    /\ hpc[r] = "idle"
    /\ reqCtx' = [reqCtx EXCEPT ![r] = ctx]
    /\ StoreLocals(r, DatabaseCheck(
           [response |-> InitialResponse(r), status |-> StatusOK,
            message |-> "Service is healthy", clock |-> 0, probes |-> <<>>],
           ctx, poolOk, d, ok))
    /\ hpc' = [hpc EXCEPT ![r] = "kubernetes"]
    /\ UNCHANGED <<db, kubeClient, sent>>

\* Lines 98-138: the Kubernetes block runs, waiting for the listing no longer
\* than its context allows; then the response is completed and written.
HealthCheck_KubernetesAndRespond(r, d, ok) ==
    /\ hpc[r] = "kubernetes"
    /\ LET st == Finalize(KubernetesCheck(Locals(r), reqCtx[r], d, ok)) IN
         /\ StoreLocals(r, st)
         /\ sent' = [sent EXCEPT ![r] = sent[r] \o Respond(st)]
    /\ hpc' = [hpc EXCEPT ![r] = "done"]
    /\ UNCHANGED <<db, kubeClient, reqCtx>>

\* =================================================================
\* utils.ErrorResponse on its own
\* =================================================================
\* How many errors deep the error handed to ErrorResponse wraps others.
MaxWrapDepth == 1

StatusBadRequest == 400
ErrCodeInvalidInput == "INVALID_INPUT"
ErrCodeDatabaseOperationFailed == "DATABASE_OPERATION_FAILED"

\* The CustomErrors and the other errors that wrap one of `causes`.
CustomErrorsOver(causes) ==
    {NewCustomErrorWithStatus(code, message, cause, httpStatus, "nil") :
        code \in {"", ErrCodeInvalidInput, ErrCodeDatabaseOperationFailed},
        message \in {"", "Cluster name is required."},
        cause \in causes,
        httpStatus \in {StatusBadRequest, StatusInternalServerError}}

PlainErrorsOver(causes) ==
    {PlainError(text, cause) : text \in {ErrPool, "unexpected EOF"},
                               cause \in causes}

RECURSIVE ErrorsUpTo(_)
ErrorsUpTo(depth) ==
    LET causes == IF depth = 0 THEN {NoErr}
                  ELSE {NoErr} \cup ErrorsUpTo(depth - 1)
    IN  CustomErrorsOver(causes) \cup PlainErrorsOver(causes)

ResponseQuiet ==
    /\ errIn = NoErr
    /\ jsonOut = <<>>

\* ErrorResponse(c, err) is called once with the error.
ErrorResponse_Call ==
    /\ errIn # NoErr
    /\ jsonOut = <<>>
    /\ jsonOut' = Append(jsonOut, ErrorResponse(errIn))
    /\ UNCHANGED errIn

\* =================================================================
\* ClusterServiceImpl.RegisterCluster
\* =================================================================
\* The longest name and kubeconfig content handed to the service.
MaxStringLen == 2

\* A string is a sequence of characters: two kinds of white space and one
\* other character.
Chars == {" ", "\t", "a"}

IsSpace(ch) == ch \in {" ", "\t"}

RECURSIVE StringsUpTo(_)
StringsUpTo(n) ==
    IF n = 0 THEN {<<>>}
    ELSE LET shorter == StringsUpTo(n - 1)
         IN  shorter \cup {Append(str, ch) : str \in shorter, ch \in Chars}

\* Mutation: nothing is trimmed.
TrimSpace_Nothing(str) == str

RECURSIVE TrimLeft(_)
TrimLeft(str) ==
    IF str # <<>> /\ IsSpace(Head(str)) THEN TrimLeft(Tail(str)) ELSE str

RECURSIVE TrimRight(_)
TrimRight(str) ==
    IF str # <<>> /\ IsSpace(str[Len(str)])
      THEN TrimRight(SubSeq(str, 1, Len(str) - 1))
      ELSE str

\* strings.TrimSpace: leading and trailing white space removed.
TrimSpace(str) == TrimRight(TrimLeft(str))

\* A nil *models.Cluster.
NilCluster == [nil |-> TRUE, ID |-> 0, Name |-> <<>>, Kubeconfig |-> <<>>]

InvalidInputError ==
    NewCustomErrorWithStatus(ErrCodeInvalidInput,
        "Cluster name and kubeconfig content are required.", NoErr,
        StatusBadRequest, "nil")

\* The error postgresClusterRepository.Create returns when the insert fails.
RepoCreateError ==
    NewCustomErrorWithStatus(ErrCodeDatabaseOperationFailed,
        "Failed to create cluster '%s'.", PlainError("duplicate key value", NoErr),
        StatusInternalServerError, "nil")

\* The test of line 45.
InputRejected(name, kubeconfigContent) ==
    TrimSpace(name) = <<>> \/ TrimSpace(kubeconfigContent) = <<>>

ServiceQuiet ==
    /\ svcIn = [name |-> <<>>, kubeconfigContent |-> <<>>]
    /\ svcPc = "idle"
    /\ cluster = NilCluster
    /\ svcOut = [cluster |-> NilCluster, err |-> NoErr]
    /\ repoLog = <<>>

\* Lines 41-61: the input is validated and the domain model is made.
RegisterCluster_Validate ==
    /\ svcPc = "called"
    /\ IF InputRejected(svcIn.name, svcIn.kubeconfigContent)
         THEN /\ svcOut' = [cluster |-> NilCluster, err |-> InvalidInputError]
              /\ svcPc' = "returned"
              /\ UNCHANGED cluster
         ELSE /\ cluster' = [nil |-> FALSE, ID |-> 0, Name |-> svcIn.name,
                             Kubeconfig |-> svcIn.kubeconfigContent]
              /\ svcPc' = "create"
              /\ UNCHANGED svcOut
    /\ UNCHANGED <<svcIn, repoLog>>

\* Lines 63-69: s.clusterRepo.Create(ctx, cluster), then the return.
RegisterCluster_Create(ok) ==
    /\ svcPc = "create"
    /\ LET result == IF ok THEN NoErr ELSE RepoCreateError
           stored == IF ok THEN [cluster EXCEPT !.ID = 1] ELSE cluster
       IN  /\ repoLog' = Append(repoLog,
                             [cluster |-> cluster, result |-> result])
           /\ cluster' = stored
           /\ svcOut' = IF result # NoErr
                          THEN [cluster |-> NilCluster, err |-> result]
                          ELSE [cluster |-> stored, err |-> NoErr]
    /\ svcPc' = "returned"
    /\ UNCHANGED svcIn

\* =================================================================
\* config.LoadConfig
\* =================================================================
NumLoadCalls == 2
LoadCalls == 1..NumLoadCalls

\* The Config behind the package variable cfg: nil, or the struct made at
\* line 131 with what was read into its App.Env.
NilCfg == [ptr |-> 0, Env |-> ""]
ErrReadConfig == "[Config]: Failed to read config"

ConfigQuiet ==
    /\ loadOnce = "fresh"
    /\ loadCfg = NilCfg
    /\ loadErr = "nil"
    /\ lpc = [c \in LoadCalls |-> "idle"]
    /\ appEnv = ""
    /\ loadArrival = [c \in LoadCalls |-> "none"]
    /\ loadResult = [c \in LoadCalls |-> [cfg |-> NilCfg, err |-> "nil"]]
    /\ reads = 0

\* The call reaches once.Do: the first caller runs the closure, a caller
\* arriving while it runs blocks, a later one skips it.
LoadConfig_Call(c) ==
    /\ lpc[c] = "idle"
    /\ loadArrival' = [loadArrival EXCEPT ![c] = loadOnce]
    /\ IF OnceShouldRun(loadOnce)
         THEN /\ loadOnce' = "running"
              /\ lpc' = [lpc EXCEPT ![c] = "env"]
         ELSE /\ UNCHANGED loadOnce
              /\ lpc' = [lpc EXCEPT ![c] =
                           IF OnceMustWait(loadOnce) THEN "blocked"
                           ELSE "return"]
    /\ UNCHANGED <<loadCfg, loadErr, appEnv, loadResult, reads>>

LoadConfig_Unblock(c) ==
    /\ lpc[c] = "blocked"
    /\ ~OnceMustWait(loadOnce)
    /\ lpc' = [lpc EXCEPT ![c] = "return"]
    /\ UNCHANGED <<loadOnce, loadCfg, loadErr, appEnv, loadArrival,
                   loadResult, reads>>

\* Lines 117-131: APP_ENV is read, "development" stands in for an empty
\* one, and cfg = &Config{}.
LoadConfig_Env(c, env) ==
    /\ lpc[c] = "env"
    /\ appEnv' = IF env = "" THEN "development" ELSE env
    /\ loadCfg' = [ptr |-> 1, Env |-> ""]
    /\ lpc' = [lpc EXCEPT ![c] = "read"]
    /\ UNCHANGED <<loadOnce, loadErr, loadArrival, loadResult, reads>>

\* Lines 135-147: cleanenv.ReadConfig; a failure is stored in loadErr, and
\* after a success cfg.App.Env is made to be appEnv.
LoadConfig_Read(c, ok, fileEnv) ==
    /\ lpc[c] = "read"
    /\ reads' = reads + 1
    /\ IF ok
         THEN /\ loadCfg' = [loadCfg EXCEPT !.Env =
                                IF fileEnv # appEnv THEN appEnv ELSE fileEnv]
              /\ UNCHANGED loadErr
         ELSE /\ loadErr' = ErrReadConfig
              /\ UNCHANGED loadCfg
    /\ lpc' = [lpc EXCEPT ![c] = "exit"]
    /\ UNCHANGED <<loadOnce, appEnv, loadArrival, loadResult>>

\* The closure returns and once.Do marks the gate done.
LoadConfig_OnceExit(c) ==
    /\ lpc[c] = "exit"
    /\ loadOnce' = "done"
    /\ lpc' = [lpc EXCEPT ![c] = "return"]
    /\ UNCHANGED <<loadCfg, loadErr, appEnv, loadArrival, loadResult, reads>>

\* Mutation: loadErr is a local of the call, set only by the closure.
LoadReturn_LocalErr(c) ==
    [cfg |-> loadCfg,
     err |-> IF loadArrival[c] = "fresh" THEN loadErr ELSE "nil"]

\* Line 150: return cfg, loadErr
LoadReturn(c) == [cfg |-> loadCfg, err |-> loadErr]

LoadConfig_Return(c) ==
    /\ lpc[c] = "return"
    /\ loadResult' = [loadResult EXCEPT ![c] = LoadReturn(c)]
    /\ lpc' = [lpc EXCEPT ![c] = "returned"]
    /\ UNCHANGED <<loadOnce, loadCfg, loadErr, appEnv, loadArrival, reads>>

\* =================================================================
\* main, the routes and the endpoints
\* =================================================================
\* main makes one call of InitKubernetesClient and one of
\* GetKubernetesClient.
MainCall == 1
MainGetter == 1

StatusCreated == 201

\* routes.InitializeRoutes: what is registered on the engine.
InitializeRoutes ==
    {[method |-> "GET", path |-> "/api/v1/healthz",
      handler |-> "SetupHealthCheckHandler"],
     [method |-> "POST", path |-> "/api/v1/clusters",
      handler |-> "ClusterHandler.RegisterCluster"]}

\* The handler registered for a method and path, "" when there is none.
HandlerOf(method, path) ==
    IF \E rt \in routes : rt.method = method /\ rt.path = path
      THEN (CHOOSE rt \in routes :
                rt.method = method /\ rt.path = path).handler
      ELSE ""

\* handlers.SetupHealthCheckHandler: the zero HealthCheckResposne, whose
\* Dependencies is an empty struct, sent with 200.
HealthCheckResposne ==
    [Status |-> "", Message |-> "", Application |-> "", Version |-> "",
     Environment |-> "", Timestamp |-> "", Dependencies |-> <<>>]

SetupHealthCheckHandler ==
    SuccessResponse(StatusOK, "Service is health.", HealthCheckResposne)

\* The names and file contents sent to the cluster endpoint.
PostedStrings == {<<>>, <<" ">>, <<"a">>}

\* What a request gets: the JSON written, or, after a panic that gin's
\* Recovery middleware caught, the bare status 500.
Reply(m) == [fault |-> FALSE, status |-> m.status, body |-> <<m.body>>]
Recovered ==
    [fault |-> TRUE, status |-> StatusInternalServerError, body |-> <<>>]

\* postgresClusterRepository.Create: r.DB.WithContext(ctx) dereferences
\* the handle.
RepoCreate(handle, ok) ==
    IF handle = NilHandle THEN "panic"
    ELSE IF ok THEN "created" ELSE "failed"

\* ClusterHandler.RegisterCluster down to the repository.
ClusterRegister(name, fileOk, content, createOk) ==
    IF TrimSpace(name) = <<>>
      THEN Reply(ErrorResponse(NewCustomErrorWithStatus(ErrCodeInvalidInput,
               "Cluster name is required.", NoErr, StatusBadRequest, "nil")))
    ELSE IF ~fileOk
      THEN Reply(ErrorResponse(NewCustomErrorWithStatus(ErrCodeInvalidInput,
               "Kubeconfig file is required (field name 'kubeconfig_file').",
               NoErr, StatusBadRequest, "nil")))
    ELSE IF InputRejected(name, content)
      THEN Reply(ErrorResponse(InvalidInputError))
    ELSE LET outcome == RepoCreate(db, createOk) IN
         IF outcome = "panic" THEN Recovered
         ELSE IF outcome = "failed"
           THEN Reply(ErrorResponse(RepoCreateError))
         ELSE Reply(SuccessResponse(StatusCreated,
                  "Cluster registered successfully.",
                  [nil |-> FALSE, ID |-> 1, Name |-> name,
                   Kubeconfig |-> content]))

requestVars == <<hpc, reqCtx, clock, response, overallHTTPStatus,
                 overallMessage, probes>>

MainQuiet ==
    /\ mpc = "off"
    /\ alive = [n \in DependencyNames |-> TRUE]
    /\ routes = {}
    /\ seen = [r \in Requests |-> [n \in DependencyNames |-> TRUE]]
    /\ creply = [q \in Requests |-> <<>>]

RestQuiet == ResponseQuiet /\ ServiceQuiet /\ ConfigQuiet /\ MainQuiet

\* Lines 42-50: database.ConnectPostgres; on failure db = nil and main
\* goes on.
Main_ConnectPostgres(ok) ==
    /\ mpc = "connectDb"
    /\ ok => alive["database"]
    /\ db' = IF ok THEN "gorm.DB" ELSE NilHandle
    /\ mpc' = IF ok THEN "migrate" ELSE "initKube"
    /\ UNCHANGED <<clientVars, kubeClient, requestVars, sent, responseVars,
                   serviceVars, configVars, alive, routes, seen, creply>>

\* Lines 55-60: db.AutoMigrate; log.Fatal on failure.
Main_AutoMigrate(ok) ==
    /\ mpc = "migrate"
    /\ mpc' = IF ok THEN "initKube" ELSE "exited"
    /\ UNCHANGED <<clientVars, healthVars, responseVars, serviceVars,
                   configVars, alive, routes, seen, creply>>

\* Lines 66-71: InitKubernetesClient has returned; log.Fatal on an error.
Main_CheckInit ==
    /\ mpc = "initKube"
    /\ pc[MainCall] = "returned"
    /\ mpc' = IF initResult[MainCall] # NilError THEN "exited" ELSE "getKube"
    /\ UNCHANGED <<clientVars, healthVars, responseVars, serviceVars,
                   configVars, alive, routes, seen, creply>>

\* Lines 75-81: GetKubernetesClient; log.Fatal on an error.
Main_GetKubernetesClient ==
    /\ mpc = "getKube"
    /\ GetKubernetesClient(MainGetter)
    /\ LET got == GetReturn(clientSet) IN
         /\ kubeClient' = IF got.client = NilClient THEN NilHandle
                           ELSE "kubernetes.Clientset"
         /\ mpc' = IF got.err # NilError THEN "exited" ELSE "newServer"
    /\ UNCHANGED <<db, requestVars, sent, responseVars, serviceVars,
                   configVars, alive, routes, seen, creply>>

\* Line 88: NewServer builds the engine with routes.InitializeRoutes.
Main_NewServer ==
    /\ mpc = "newServer"
    /\ routes' = InitializeRoutes
    /\ mpc' = "start"
    /\ UNCHANGED <<clientVars, healthVars, responseVars, serviceVars,
                   configVars, alive, seen, creply>>

\* Line 94: appServer.Start().
Main_Start ==
    /\ mpc = "start"
    /\ mpc' = "serving"
    /\ UNCHANGED <<clientVars, healthVars, responseVars, serviceVars,
                   configVars, alive, routes, seen, creply>>

\* GET /api/v1/healthz is served by the handler registered for it.
Healthz_Get(r) ==
    /\ mpc = "serving"
    /\ hpc[r] = "idle"
    /\ HandlerOf("GET", "/api/v1/healthz") = "SetupHealthCheckHandler"
    /\ sent' = [sent EXCEPT ![r] = Append(@, SetupHealthCheckHandler)]
    /\ hpc' = [hpc EXCEPT ![r] = "done"]
    /\ seen' = [seen EXCEPT ![r] = alive]
    /\ UNCHANGED <<clientVars, db, kubeClient, reqCtx, clock, response,
                   overallHTTPStatus, overallMessage, probes, responseVars,
                   serviceVars, configVars, mpc, alive, routes, creply>>

\* POST /api/v1/clusters.
Clusters_Post(q, name, fileOk, content, createOk) ==
    /\ mpc = "serving"
    /\ creply[q] = <<>>
    /\ HandlerOf("POST", "/api/v1/clusters") = "ClusterHandler.RegisterCluster"
    /\ createOk => alive["database"]
    /\ creply' = [creply EXCEPT ![q] =
                    <<ClusterRegister(name, fileOk, content, createOk)>>]
    /\ UNCHANGED <<clientVars, healthVars, responseVars, serviceVars,
                   configVars, mpc, alive, routes, seen>>

\* A dependency stops or starts answering.
DependencyFlips(n) ==
    /\ alive' = [alive EXCEPT ![n] = ~@]
    /\ UNCHANGED <<clientVars, healthVars, responseVars, serviceVars,
                   configVars, mpc, routes, seen, creply>>

\* ------------------------------------------------------- specifications
\* The client lifecycle alone: no health request is served.
Init == ClientInit /\ HealthQuiet /\ RestQuiet

Next ==
    \/ \E c \in InitCalls, p \in ConfigPaths :
          InitKubernetesClient_Call(c, p) /\ UNCHANGED <<healthVars, restVars>>
    \/ \E c \in InitCalls : OnceDo_Unblock(c) /\ UNCHANGED <<healthVars, restVars>>
    \/ \E c \in InitCalls, ok \in BOOLEAN :
          TryInClusterConfig(c, ok) /\ UNCHANGED <<healthVars, restVars>>
    \/ \E c \in InitCalls, ok \in BOOLEAN :
          TryKubeconfig(c, ok) /\ UNCHANGED <<healthVars, restVars>>
    \/ \E c \in InitCalls, ok \in BOOLEAN :
          NewForConfig(c, ok) /\ UNCHANGED <<healthVars, restVars>>
    \/ \E c \in InitCalls : OnceDo_Exit(c) /\ UNCHANGED <<healthVars, restVars>>
    \/ \E c \in InitCalls :
          InitKubernetesClient_Return(c) /\ UNCHANGED <<healthVars, restVars>>
    \/ \E g \in GetCallers : GetKubernetesClient(g) /\ UNCHANGED <<healthVars, restVars>>

Spec == Init /\ [][Next]_vars

\* The health handler alone, built with any combination of handles.
HealthInit ==
    /\ ClientInit
    /\ db \in {NilHandle, "gorm.DB"}
    /\ kubeClient \in {NilHandle, "kubernetes.Clientset"}
    /\ RequestsIdle
    /\ RestQuiet

HealthNext ==
    \/ \E r \in Requests, ctx \in RequestContexts, poolOk \in BOOLEAN,
          d \in ProbeTimes, ok \in BOOLEAN :
          HealthCheck_Database(r, ctx, poolOk, d, ok) /\ UNCHANGED <<clientVars, restVars>>
    \/ \E r \in Requests, d \in ProbeTimes, ok \in BOOLEAN :
          HealthCheck_KubernetesAndRespond(r, d, ok) /\ UNCHANGED <<clientVars, restVars>>

SpecHealth == HealthInit /\ [][HealthNext]_vars

\* utils.ErrorResponse applied once to an error.
ResponseInit ==
    /\ ClientInit /\ HealthQuiet
    /\ ServiceQuiet /\ ConfigQuiet /\ MainQuiet
    /\ errIn \in ErrorsUpTo(MaxWrapDepth)
    /\ jsonOut = <<>>

ResponseNext ==
    ErrorResponse_Call
        /\ UNCHANGED <<clientVars, healthVars, serviceVars, configVars,
                       mainVars>>

SpecResponse == ResponseInit /\ [][ResponseNext]_vars

\* One call of ClusterServiceImpl.RegisterCluster.
ServiceInit ==
    /\ ClientInit /\ HealthQuiet
    /\ ResponseQuiet /\ ConfigQuiet /\ MainQuiet
    /\ svcIn \in [name : StringsUpTo(MaxStringLen),
                   kubeconfigContent : StringsUpTo(MaxStringLen)]
    /\ svcPc = "called"
    /\ cluster = NilCluster
    /\ svcOut = [cluster |-> NilCluster, err |-> NoErr]
    /\ repoLog = <<>>

ServiceNext ==
    \/ RegisterCluster_Validate
          /\ UNCHANGED <<clientVars, healthVars, responseVars, configVars,
                         mainVars>>
    \/ \E ok \in BOOLEAN :
          RegisterCluster_Create(ok)
              /\ UNCHANGED <<clientVars, healthVars, responseVars,
                             configVars, mainVars>>

SpecService == ServiceInit /\ [][ServiceNext]_vars

\* The callers of config.LoadConfig.
ConfigInit ==
    /\ ClientInit /\ HealthQuiet
    /\ ResponseQuiet /\ ServiceQuiet /\ MainQuiet
    /\ ConfigQuiet

ConfigNext ==
    \/ \E c \in LoadCalls :
          LoadConfig_Call(c)
              /\ UNCHANGED <<clientVars, healthVars, responseVars,
                             serviceVars, mainVars>>
    \/ \E c \in LoadCalls :
          LoadConfig_Unblock(c)
              /\ UNCHANGED <<clientVars, healthVars, responseVars,
                             serviceVars, mainVars>>
    \/ \E c \in LoadCalls, env \in {"", "production"} :
          LoadConfig_Env(c, env)
              /\ UNCHANGED <<clientVars, healthVars, responseVars,
                             serviceVars, mainVars>>
    \/ \E c \in LoadCalls, ok \in BOOLEAN,
          fileEnv \in {"development", "production"} :
          LoadConfig_Read(c, ok, fileEnv)
              /\ UNCHANGED <<clientVars, healthVars, responseVars,
                             serviceVars, mainVars>>
    \/ \E c \in LoadCalls :
          LoadConfig_OnceExit(c)
              /\ UNCHANGED <<clientVars, healthVars, responseVars,
                             serviceVars, mainVars>>
    \/ \E c \in LoadCalls :
          LoadConfig_Return(c)
              /\ UNCHANGED <<clientVars, healthVars, responseVars,
                             serviceVars, mainVars>>

SpecConfig == ConfigInit /\ [][ConfigNext]_vars

\* main from the database connection on, then the server at work.
MainInit ==
    /\ ClientInit /\ HealthQuiet
    /\ ResponseQuiet /\ ServiceQuiet /\ ConfigQuiet
    /\ mpc = "connectDb"
    /\ alive \in [DependencyNames -> BOOLEAN]
    /\ routes = {}
    /\ seen = [r \in Requests |-> [n \in DependencyNames |-> TRUE]]
    /\ creply = [q \in Requests |-> <<>>]

MainNext ==
    \/ \E ok \in BOOLEAN : Main_ConnectPostgres(ok)
    \/ \E ok \in BOOLEAN : Main_AutoMigrate(ok)
    \/ \E p \in ConfigPaths :
          /\ mpc = "initKube"
          /\ InitKubernetesClient_Call(MainCall, p)
          /\ UNCHANGED <<healthVars, restVars>>
    \/ \E ok \in BOOLEAN :
          /\ mpc = "initKube"
          /\ TryInClusterConfig(MainCall, ok)
          /\ UNCHANGED <<healthVars, restVars>>
    \/ \E ok \in BOOLEAN :
          /\ mpc = "initKube"
          /\ TryKubeconfig(MainCall, ok)
          /\ UNCHANGED <<healthVars, restVars>>
    \/ \E ok \in BOOLEAN :
          /\ mpc = "initKube"
          /\ NewForConfig(MainCall, ok)
          /\ UNCHANGED <<healthVars, restVars>>
    \/ /\ mpc = "initKube"
       /\ OnceDo_Exit(MainCall)
       /\ UNCHANGED <<healthVars, restVars>>
    \/ /\ mpc = "initKube"
       /\ InitKubernetesClient_Return(MainCall)
       /\ UNCHANGED <<healthVars, restVars>>
    \/ Main_CheckInit
    \/ Main_GetKubernetesClient
    \/ Main_NewServer
    \/ Main_Start
    \/ \E r \in Requests : Healthz_Get(r)
    \/ \E q \in Requests, name \in PostedStrings, fileOk \in BOOLEAN,
          content \in PostedStrings, createOk \in BOOLEAN :
          Clusters_Post(q, name, fileOk, content, createOk)
    \/ \E n \in DependencyNames : DependencyFlips(n)

SpecMain == MainInit /\ [][MainNext]_vars

\* ===================================================================
\* Properties
\* ===================================================================
Strategies == {"inCluster", "kubeconfig", "newForConfig"}

\* How many times a connection step was executed.
Count(s) == Cardinality({i \in 1..Len(attempts) : attempts[i].strategy = s})

\* The calls that ran the closure of initOnce.Do.
Runners == {c \in InitCalls : arrival[c] = "fresh"}

\* The log is a whole connection sequence: it ends with a failed kubeconfig
\* attempt or with the clientset construction.
SequenceComplete ==
    /\ Len(attempts) > 0
    /\ LET last == attempts[Len(attempts)] IN
         \/ last.strategy = "newForConfig"
         \/ last.strategy = "kubeconfig" /\ ~last.ok

\* C1: over all InitKubernetesClient calls, concurrent or later, after a
\* success or a failure, each step of the connection sequence (in-cluster
\* attempt, kubeconfig attempt, clientset construction) is executed at most
\* once, all by one and the same call, and once any call has returned the
\* sequence has been executed exactly once, to its end.
C1_ExactlyOnce ==
    /\ \A s \in Strategies : Count(s) <= 1
    /\ Cardinality(Runners) <= 1
    /\ \A i \in 1..Len(attempts) : attempts[i].call \in Runners
    /\ SomeInitReturned => Count("inCluster") = 1 /\ SequenceComplete

\* Every call has returned, one of them arrived after a failed run was over,
\* and the failed run is the only one in the log.
C1_Witness ==
    /\ \A c \in InitCalls : pc[c] = "returned"
    /\ \E c \in InitCalls : arrival[c] = "done"
    /\ HandleState = "Failed"
    /\ Len(attempts) = 2

\* C2: any two InitKubernetesClient calls that have returned have returned
\* the same outcome: both nil, or both the initialization failure.
C2_SameOutcome ==
    \A c1, c2 \in InitCalls :
        pc[c1] = "returned" /\ pc[c2] = "returned"
            => initResult[c1] = initResult[c2]

Terminal == {"Ready", "Failed"}

\* C3: the handle moves only Uninitialized -> Initializing -> Ready | Failed,
\* and from Ready or Failed no step of any InitKubernetesClient or
\* GetKubernetesClient call changes the state, the once-gate or the stored
\* client.
C3_TerminalStates ==
    [][/\ HandleState \in Terminal =>
            /\ HandleState' = HandleState
            /\ clientSet' = clientSet
            /\ initOnce' = initOnce
       /\ HandleState' # HandleState =>
            <<HandleState, HandleState'>> \in
                {<<"Uninitialized", "Initializing">>,
                 <<"Initializing", "Ready">>,
                 <<"Initializing", "Failed">>}]_vars

\* A terminal state in which a later InitKubernetesClient call has gone
\* through and a GetKubernetesClient call was made as well.
C3_Witness ==
    /\ HandleState \in Terminal
    /\ \E c \in InitCalls : arrival[c] = "done" /\ pc[c] = "returned"
    /\ \E g \in GetCallers : getAt[g].called /\ getAt[g].state \in Terminal

\* C4: a GetKubernetesClient call made while the handle is Uninitialized, or
\* Initializing with the initializing call still running, returns the
\* K8S_CLIENT_NOT_INITIALIZED error and no client.
C4_NotInitializedBeforeCompletion ==
    \A g \in GetCallers :
        getAt[g].called /\ getAt[g].state \in {"Uninitialized", "Initializing"}
            => getResult[g] = [client |-> NilClient, err |-> NotInitializedError]

\* Everything but what a GetKubernetesClient call hands back to its caller.
PackageAndInitState ==
    <<initOnce, clientSet, pc, cfg, restConfig, err, initializationError,
      initResult, arrival, attempts>>

\* C5: GetKubernetesClient can be taken in every reachable state, also while
\* an InitKubernetesClient call is in progress or blocked, and its step
\* changes nothing but the caller's own result: not the once-gate, not the
\* stored client, not the log of connection steps, not any Init call.
C5_GetIsPureRead ==
    /\ [](\A g \in GetCallers : ENABLED GetKubernetesClient(g))
    /\ [][\A g \in GetCallers :
            (GetKubernetesClient(g) \/ getResult'[g] # getResult[g]
                 \/ getAt'[g] # getAt[g])
                => UNCHANGED PackageAndInitState]_vars

\* A getter has been served while the closure was executing and another
\* InitKubernetesClient call was blocked on the gate.
C5_Witness ==
    /\ initOnce = "running"
    /\ \E c \in InitCalls : pc[c] = "blocked"
    /\ \E g \in GetCallers : getAt[g].called /\ getAt[g].state = "Initializing"

\* The causes the failed run recorded: what the error it built, and then
\* returned, wraps.
RecordedCauses ==
    ({Unwrap(initializationError[c]) : c \in Runners}
        \cup {Unwrap(initResult[c]) : c \in Runners}) \ {"nil"}

C7_NilReturnGivesClient ==
    \A g \in GetCallers :
        getAt[g].called /\ getAt[g].nilReturned
            => getResult[g].client # NilClient /\ getResult[g].err = NilError

\* C8: every GetKubernetesClient call served in Ready returned, with a nil
\* error, the very clientset the successful run stored, which is the one
\* the package still holds; so any two such calls returned the same one.
C8_SameInstance ==
    \A g \in GetCallers :
        getAt[g].called /\ getAt[g].state = "Ready"
            => /\ getResult[g].err = NilError
               /\ getResult[g].client # NilClient
               /\ getResult[g].client = clientSet
               /\ \E i \in 1..Len(attempts) :
                     /\ attempts[i].strategy = "newForConfig" /\ attempts[i].ok
                     /\ getResult[g].client.id = i
               /\ \A h \in GetCallers :
                     getAt[h].called /\ getAt[h].state = "Ready"
                         => getResult[h].client = getResult[g].client

\* Two different callers have been served in Ready.
C8_Witness ==
    \E g, h \in GetCallers :
        /\ g # h
        /\ getAt[g].called /\ getAt[g].state = "Ready"
        /\ getAt[h].called /\ getAt[h].state = "Ready"

\* C9: a call that reached initOnce.Do while the closure was executing is
\* blocked for as long as it executes and is past the gate only once the
\* handle is Ready or Failed; a call that reached it after that is never
\* blocked.
C9_WaitThenReturn ==
    \A c \in InitCalls :
        /\ arrival[c] = "running" /\ initOnce = "running" => pc[c] = "blocked"
        /\ arrival[c] = "running" /\ pc[c] \in {"return", "returned"}
              => HandleState \in Terminal
        /\ arrival[c] = "done" => pc[c] \in {"return", "returned"}
        /\ pc[c] = "returned" => HandleState \in Terminal

\* A call that arrived during the run has returned after it.
C9_Witness ==
    \E c \in InitCalls : arrival[c] = "running" /\ pc[c] = "returned"

\* C10: the in-cluster strategy is the first step of the sequence; the
\* kubeconfig strategy is the second step and only after a failed in-cluster
\* attempt, and a sequence that got past a failed in-cluster attempt has
\* tried it; after a successful in-cluster attempt no kubeconfig path is
\* read, and the client is built from the first configuration obtained.
C10_StrategyOrder ==
    /\ Len(attempts) > 0 => attempts[1].strategy = "inCluster"
    /\ \A i \in 1..Len(attempts) :
          /\ attempts[i].strategy = "inCluster" => i = 1
          /\ attempts[i].strategy = "kubeconfig" => i = 2 /\ ~attempts[1].ok
          /\ attempts[i].path # "nil" => ~attempts[1].ok
          /\ attempts[i].strategy = "newForConfig" =>
                IF attempts[1].ok THEN i = 2
                ELSE i = 3 /\ attempts[2].strategy = "kubeconfig" /\ attempts[2].ok
    /\ SequenceComplete =>
          (Count("kubeconfig") = 1 <=> ~attempts[1].ok)
    /\ clientSet # NilClient =>
          clientSet.config =
              IF attempts[1].ok THEN "inClusterConfig" ELSE attempts[2].path

\* The fallback was taken and built the client.
C10_Witness ==
    /\ HandleState = "Ready"
    /\ Len(attempts) = 3
    /\ ~attempts[1].ok /\ attempts[2].ok /\ attempts[3].ok

\* The error a call holds: its local while it runs, its result afterwards.
ErrorOf(c) == IF pc[c] = "returned" THEN initResult[c] ELSE initializationError[c]

\* C11: the kubeconfig step uses the recommended home file when the path
\* the running call was given is empty and the given path itself otherwise;
\* and when the sequence was failed in-cluster attempt, successful fallback,
\* successful construction, the handle is Ready once the closure is left
\* and the call that ran it returns nil.
C11_DefaultPathThenReady ==
    /\ [][\A c \in InitCalls :
            pc[c] = "kubeconfig" /\ pc'[c] # "kubeconfig"
                => /\ Len(attempts') = Len(attempts) + 1
                   /\ attempts'[Len(attempts')].strategy = "kubeconfig"
                   /\ attempts'[Len(attempts')].path =
                        IF cfg[c] = "" THEN RecommendedHomeFile ELSE cfg[c]
                   /\ attempts'[Len(attempts')].ok
                        => restConfig'[c] = attempts'[Len(attempts')].path]_vars
    /\ [](Len(attempts) = 3 /\ ~attempts[1].ok /\ attempts[2].ok /\ attempts[3].ok
            => /\ clientSet.config = attempts[2].path
               /\ initOnce = "done" => HandleState = "Ready"
               /\ \A c \in Runners : pc[c] \in {"exitDo", "return", "returned"}
                                         /\ ErrorOf(c) = NilError)

\* The call that ran the sequence has returned, and the fallback that built
\* the client used the recommended home file.
C11_Witness ==
    /\ HandleState = "Ready"
    /\ Len(attempts) = 3
    /\ ~attempts[1].ok
    /\ attempts[2].ok /\ attempts[2].path = RecommendedHomeFile
    /\ attempts[3].ok
    /\ \E c \in Runners : pc[c] = "returned" /\ initResult[c] = NilError

BothStrategiesFailed ==
    /\ Len(attempts) >= 2
    /\ ~attempts[1].ok
    /\ attempts[2].strategy = "kubeconfig" /\ ~attempts[2].ok

\* C12: when the in-cluster and the kubeconfig attempt have both failed, no
\* clientset construction is attempted, no client is stored, the handle
\* ends Failed, and the call that ran them holds, and then returns, a
\* K8S_CLIENT_INIT_FAILED error that wraps the kubeconfig error.
C12_BothFailed ==
    BothStrategiesFailed =>
        /\ Len(attempts) = 2
        /\ Count("newForConfig") = 0
        /\ clientSet = NilClient
        /\ initOnce = "done" => HandleState = "Failed"
        /\ \A c \in Runners :
              /\ ErrorOf(c).code = ErrCodeK8sClientInitFailed
              /\ Unwrap(ErrorOf(c)) = ErrKubeconfigLoad
              /\ Unwrap(ErrorOf(c)) # ErrNotInCluster
              /\ ErrorOf(c).path = attempts[2].path

\* Both strategies failed and the call that ran them has returned.
C12_Witness ==
    /\ BothStrategiesFailed
    /\ \E c \in Runners : pc[c] = "returned"

ConstructionFailed ==
    \E i \in 1..Len(attempts) :
        attempts[i].strategy = "newForConfig" /\ ~attempts[i].ok

\* C13: when the clientset construction has failed, it is the last step of
\* the sequence (the kubeconfig strategy is not tried after an in-cluster
\* configuration was obtained), the call that ran it holds, and returns, a
\* K8S_CLIENT_INIT_FAILED error wrapping the construction error, the handle
\* ends Failed, and no GetKubernetesClient call has obtained a client.
C13_ConstructionFailed ==
    ConstructionFailed =>
        /\ attempts[Len(attempts)].strategy = "newForConfig"
        /\ Count("newForConfig") = 1
        /\ attempts[1].ok => Count("kubeconfig") = 0
        /\ clientSet = NilClient
        /\ initOnce = "done" => HandleState = "Failed"
        /\ \A c \in Runners :
              /\ ErrorOf(c).code = ErrCodeK8sClientInitFailed
              /\ Unwrap(ErrorOf(c)) = ErrClientsetBuild
        /\ \A g \in GetCallers :
              /\ getResult[g].client = NilClient
              /\ getAt[g].called =>
                    getResult[g].err.code = ErrCodeK8sClientNotInitialized

\* The construction from the in-cluster configuration failed, the call has
\* returned, and a getter was served afterwards.
C13_Witness ==
    /\ ConstructionFailed
    /\ attempts[1].ok
    /\ \E c \in Runners : pc[c] = "returned"
    /\ \E g \in GetCallers : getAt[g].called /\ getAt[g].state = "Failed"

\* ------------------------------------------------- the health handler
Done(r) == hpc[r] = "done"

\* The calls the request has made on a dependency, in order.
Runs(r) == {probes[r][i] : i \in 1..Len(probes[r])}

\* The runs of the two context-bound probes: the ping and the listing.
ProbeRuns(r) == {p \in Runs(r) : p.name \in {"database", "kubernetes"}}

Configured ==
    {n \in DependencyNames :
        IF n = "database" THEN db # NilHandle ELSE kubeClient # NilHandle}

\* The entry of a dependency in the report of the request.
EntryOf(r, n) ==
    IF n = "database" THEN response[r].Database ELSE response[r].Kubernetes

\* The overall status of the finished report.
OverallHealthy(r) ==
    /\ overallHTTPStatus[r] = StatusOK
    /\ response[r].Status = StatusText(StatusOK)

OverallUnhealthy(r) ==
    /\ overallHTTPStatus[r] = StatusInternalServerError
    /\ response[r].Status = StatusText(StatusInternalServerError)

DatabaseTimedOut(r) ==
    \E p \in Runs(r) :
        /\ p.name = "database"
        /\ p.err = DeadlineExceeded
        /\ p.end = p.deadline

KubernetesSucceeded(r) ==
    \E p \in Runs(r) : p.name = "kubernetes" /\ p.err = "nil"

\* C14: every finished health report has an entry for the database and for
\* kubernetes; whenever a Kubernetes client is configured the listing has
\* been run and its entry is UP or DOWN, whatever the database block did
\* before it (failed, timed out, connection-pool error); and when the
\* database ping timed out and the listing succeeded, the report says
\* database DOWN, kubernetes UP, overall unhealthy.
C14_NoShortCircuit ==
    \A r \in Requests : Done(r) =>
        /\ \A n \in DependencyNames :
              EntryOf(r, n).state \in {"N/A", "UP", "DOWN"}
        /\ kubeClient # NilHandle =>
              /\ \E p \in Runs(r) : p.name = "kubernetes"
              /\ response[r].Kubernetes.state \in {"UP", "DOWN"}
        /\ (DatabaseTimedOut(r) /\ KubernetesSucceeded(r)) =>
              /\ response[r].Database = Down(DeadlineExceeded)
              /\ response[r].Kubernetes = Up
              /\ OverallUnhealthy(r)

\* The ping ran into its own 2-unit limit, the listing then succeeded, and
\* the report is finished.
C14_Witness ==
    \E r \in Requests :
        /\ Done(r)
        /\ \E p \in Runs(r) :
              /\ p.name = "database"
              /\ p.err = DeadlineExceeded
              /\ p.end = p.start + DBPingTimeout
        /\ KubernetesSucceeded(r)
        /\ response[r].Kubernetes = Up

\* C15: a finished report is overall healthy exactly when every configured
\* dependency has the entry UP; one configured dependency with a DOWN entry
\* makes it unhealthy, whichever it is and whatever the other entry says.
C15_OverallIffAllUp ==
    \A r \in Requests : Done(r) =>
        /\ OverallHealthy(r) <=> \A n \in Configured : EntryOf(r, n) = Up
        /\ OverallUnhealthy(r) <=>
              \E n \in Configured : EntryOf(r, n).state = "DOWN"
        /\ OverallHealthy(r) # OverallUnhealthy(r)

\* The database entry is DOWN, the kubernetes entry is UP, and the finished
\* report is unhealthy.
C15_Witness ==
    \E r \in Requests :
        /\ Done(r)
        /\ Configured = DependencyNames
        /\ response[r].Database.state = "DOWN"
        /\ response[r].Kubernetes = Up
        /\ OverallUnhealthy(r)

\* C16: a dependency whose handle is nil has the entry "N/A" and no call
\* was made on it, and the overall status is the one the other dependency
\* gives alone: healthy exactly when the other one is absent too or UP.
C16_AbsentIsNeutral ==
    \A r \in Requests : Done(r) =>
        \A n \in DependencyNames \ Configured :
            /\ EntryOf(r, n) = NotChecked
            /\ \A p \in Runs(r) :
                  IF n = "database" THEN p.name = "kubernetes"
                                    ELSE p.name # "kubernetes"
            /\ OverallHealthy(r) <=>
                  \A m \in Configured : EntryOf(r, m) = Up
            /\ Configured = {} => OverallHealthy(r)

\* No database handle, the listing succeeded, the finished report is
\* healthy.
C16_Witness ==
    \E r \in Requests :
        /\ Done(r)
        /\ db = NilHandle
        /\ kubeClient # NilHandle
        /\ response[r].Database = NotChecked
        /\ response[r].Kubernetes = Up
        /\ OverallHealthy(r)

\* C17: the response of a finished request has the status 200 exactly when
\* the report is overall healthy and 500 otherwise; with 500 the body is
\* the error envelope whose data is the whole report, both dependency
\* entries included; with 200 the body is the success envelope with the
\* report as data.
C17_StatusAndEnvelope ==
    \A r \in Requests : Done(r) =>
        /\ Len(sent[r]) >= 1
        /\ LET m == sent[r][1] IN
             /\ m.status \in {StatusOK, StatusInternalServerError}
             /\ m.status = StatusOK <=> OverallHealthy(r)
             /\ m.status = StatusInternalServerError <=> OverallUnhealthy(r)
             /\ m.status = StatusInternalServerError =>
                   /\ ~m.body.success
                   /\ m.body.data = <<>>
                   /\ Len(m.body.error) = 1
                   /\ m.body.error[1].code = ErrCodeInternal
                   /\ m.body.error[1].data = response[r]
                   /\ m.body.error[1].data.Database = response[r].Database
                   /\ m.body.error[1].data.Kubernetes =
                         response[r].Kubernetes
             /\ m.status = StatusOK =>
                   /\ m.body.success
                   /\ m.body.data = <<response[r]>>
                   /\ m.body.error = <<>>

\* An unhealthy report was sent with 500 inside the error envelope.
C17_Witness ==
    \E r \in Requests :
        /\ Done(r)
        /\ OverallUnhealthy(r)
        /\ Len(sent[r]) = 1
        /\ sent[r][1].status = StatusInternalServerError
        /\ sent[r][1].body.error[1].data.Kubernetes.state = "DOWN"

\* C18: for every call made on a configured dependency, a clean completion
\* gives the entry UP, and a timeout or an error gives the entry DOWN with
\* the text of the error that was captured; the request still ends with a
\* response carrying the report.
C18_DownCarriesCapturedError ==
    \A r \in Requests : Done(r) =>
        /\ \A p \in Runs(r) :
              LET n == IF p.name = "kubernetes" THEN "kubernetes"
                       ELSE "database"
              IN  IF p.err = "nil" THEN EntryOf(r, n) = Up
                  ELSE EntryOf(r, n) = Down(p.err)
        /\ Len(sent[r]) >= 1

CapOf(name) ==
    IF name = "kubernetes" THEN KubeListTimeout ELSE DBPingTimeout

Min(a, b) == IF a <= b THEN a ELSE b

\* C19: every ping and listing runs under the deadline that is the smaller
\* of its start plus its cap (2 for the ping, 3 for the listing) and the end
\* of the request context; it ends no later than that deadline; when the
\* request context ends while it is in flight it ends there with the cause
\* of the context and its entry is DOWN; and a finished health check has
\* taken no longer than the sum of the caps.
C19_BoundedProbes ==
    \A r \in Requests :
        /\ \A p \in ProbeRuns(r) :
              /\ p.deadline = IF reqCtx[r].limited
                                THEN Min(p.start + CapOf(p.name),
                                         reqCtx[r].doneAt)
                                ELSE p.start + CapOf(p.name)
              /\ p.start <= p.end
              /\ p.end <= p.deadline
              /\ p.end - p.start <= CapOf(p.name)
              /\ (reqCtx[r].limited /\ reqCtx[r].doneAt <= p.end) =>
                    /\ p.end = reqCtx[r].doneAt
                    /\ p.err = reqCtx[r].cause
              /\ (p.err # "nil" /\ (Done(r) \/ p.name = "database")) =>
                    EntryOf(r, p.name) = Down(p.err)
        /\ clock[r] <= DBPingTimeout + KubeListTimeout

\* The request was canceled while the listing was in flight, before the
\* listing's own cap: the listing ended there and is reported DOWN.
C19_Witness ==
    \E r \in Requests :
        /\ Done(r)
        /\ reqCtx[r].limited
        /\ reqCtx[r].cause = Canceled
        /\ \E p \in ProbeRuns(r) :
              /\ p.name = "kubernetes"
              /\ p.start < p.end
              /\ p.end = reqCtx[r].doneAt
              /\ p.end < p.start + KubeListTimeout
              /\ p.err = Canceled
        /\ response[r].Kubernetes = Down(Canceled)

\* One step of the handler serving request r.
HandlerStep(r) ==
    \/ \E ctx \in RequestContexts, poolOk \in BOOLEAN, d \in ProbeTimes,
          ok \in BOOLEAN :
          HealthCheck_Database(r, ctx, poolOk, d, ok) /\ UNCHANGED <<clientVars, restVars>>
    \/ \E d \in ProbeTimes, ok \in BOOLEAN :
          HealthCheck_KubernetesAndRespond(r, d, ok) /\ UNCHANGED <<clientVars, restVars>>

WellFormed(m) ==
    /\ m.status \in {StatusOK, StatusInternalServerError}
    /\ IF m.body.success
         THEN Len(m.body.data) = 1 /\ m.body.error = <<>>
         ELSE Len(m.body.error) = 1 /\ m.body.data = <<>>

\* The order in which a request passes through the handler.
HandlerRank(at) ==
    IF at = "idle" THEN 0 ELSE IF at = "kubernetes" THEN 1 ELSE 2

\* C20: a request that has not finished has sent nothing and can take its
\* next step; a finished one has sent exactly one response, well formed,
\* either the success response or the error envelope; and every step takes
\* the request one stage further, so it finishes after two steps on every
\* path.
C20_ExactlyOneResponse ==
    /\ [](\A r \in Requests :
            IF Done(r)
              THEN /\ Len(sent[r]) = 1
                   /\ WellFormed(sent[r][1])
              ELSE /\ sent[r] = <<>>
                   /\ ENABLED HandlerStep(r))
    /\ [][\A r \in Requests :
            /\ sent'[r] # sent[r] => hpc'[r] = "done"
            /\ hpc'[r] # hpc[r] =>
                  HandlerRank(hpc'[r]) = HandlerRank(hpc[r]) + 1]_vars

\* The connection-pool error path ended with the error envelope alone.
C20_Witness ==
    \E r \in Requests :
        /\ Done(r)
        /\ \E p \in Runs(r) : p.name = "db.DB"
        /\ Len(sent[r]) = 1
        /\ ~sent[r][1].body.success

\* The report without the time it was made at.
Untimed(report) == [report EXCEPT !.Timestamp = 0]

\* What a request has sent, without the time in the report.
UntimedSent(r) ==
    [i \in 1..Len(sent[r]) |->
        LET m == sent[r][i] IN
        [status |-> m.status, success |-> m.body.success,
         message |-> m.body.message,
         report |-> IF m.body.success THEN Untimed(m.body.data[1])
                    ELSE Untimed(m.body.error[1].data)]]

\* C21: two finished health checks whose calls on the dependencies had the
\* same outcomes (the handles are the same for all requests) have reports
\* equal in every field but the timestamp, the same overall status and the
\* same response; and a step of one request changes nothing of another
\* request and nothing of the handles.
C21_Stateless ==
    /\ [](\A r1, r2 \in Requests :
            (Done(r1) /\ Done(r2) /\ probes[r1] = probes[r2]) =>
                /\ Untimed(response[r1]) = Untimed(response[r2])
                /\ overallHTTPStatus[r1] = overallHTTPStatus[r2]
                /\ overallMessage[r1] = overallMessage[r2]
                /\ UntimedSent(r1) = UntimedSent(r2))
    /\ [][/\ db' = db
          /\ kubeClient' = kubeClient
          /\ \A r \in Requests :
                hpc'[r] = hpc[r] =>
                    /\ Locals(r)' = Locals(r)
                    /\ sent'[r] = sent[r]
                    /\ reqCtx'[r] = reqCtx[r]]_vars

\* Two requests found the listing failing after a good ping, at the same
\* times, and both have finished.
C21_Witness ==
    \E r1, r2 \in Requests :
        /\ r1 # r2
        /\ Done(r1) /\ Done(r2)
        /\ probes[r1] = probes[r2]
        /\ Len(probes[r1]) = 2
        /\ response[r1].Database = Up
        /\ response[r1].Kubernetes = Down(ErrList)
        /\ response[r1].Timestamp # response[r2].Timestamp

\* C22: the status field of every finished report is "UP" or "DOWN": "UP",
\* sent with 200, when every configured dependency is UP, and "DOWN" when
\* one of them is DOWN.
C22_StatusIsUpOrDown ==
    \A r \in Requests : Done(r) =>
        /\ response[r].Status \in {"UP", "DOWN"}
        /\ (\A n \in Configured : EntryOf(r, n) = Up) =>
              /\ response[r].Status = "UP"
              /\ Len(sent[r]) >= 1
              /\ sent[r][1].status = StatusOK
        /\ (\E n \in Configured : EntryOf(r, n).state = "DOWN") =>
              response[r].Status = "DOWN"

\* The message the database block leaves when the call `name` failed.
DatabaseMessage(name) ==
    IF name = "db.DB"
      THEN "Service unhealthy: Database connection pool issue"
      ELSE "Service unhealthy: Database connectivity failed"

KubernetesMessage == "Service unhealthy: Kubernetes API communication failed"

\* C26: in a finished health check whose listing failed, the kubernetes
\* entry is DOWN with the listing's error; the overall message, in the
\* report and in the response, is the database block's when the database
\* call had failed before, and the Kubernetes one only when the database
\* block had left the status OK; the status is 500 in both cases.
C26_FirstFailureKeepsMessage ==
    \A r \in Requests : Done(r) =>
        \A k \in Runs(r) : (k.name = "kubernetes" /\ k.err # "nil") =>
            /\ response[r].Kubernetes = Down(k.err)
            /\ overallHTTPStatus[r] = StatusInternalServerError
            /\ response[r].Message = overallMessage[r]
            /\ Len(sent[r]) >= 1
            /\ sent[r][1].body.message = overallMessage[r]
            /\ \A p \in Runs(r) : (p.name # "kubernetes" /\ p.err # "nil") =>
                  /\ overallMessage[r] = DatabaseMessage(p.name)
                  /\ overallMessage[r] # KubernetesMessage
            /\ (\A p \in Runs(r) : p.name # "kubernetes" => p.err = "nil") =>
                  overallMessage[r] = KubernetesMessage

\* The ping failed, then the listing failed, and the response was sent.
C26_Witness ==
    \E r \in Requests :
        /\ Done(r)
        /\ \E p \in Runs(r) : p.name = "database" /\ p.err = ErrPing
        /\ \E k \in Runs(r) : k.name = "kubernetes" /\ k.err = ErrList
        /\ response[r].Database = Down(ErrPing)
        /\ response[r].Kubernetes = Down(ErrList)
        /\ sent[r][1].body.message = DatabaseMessage("database")

\* -------------------------------------------------------- ErrorResponse
\* The errors of a chain, the outermost first.
RECURSIVE Chain(_)
Chain(e) == IF e.kind = "nil" THEN <<>> ELSE <<e>> \o Chain(e.Err)

\* The outermost CustomError of the chain, nil when it holds none.
FirstCustom(e) ==
    LET chain == Chain(e)
        at == {i \in 1..Len(chain) : chain[i].kind = "custom"}
    IN  IF at = {} THEN NoErr
        ELSE chain[CHOOSE i \in at : \A j \in at : i <= j]

\* C28: ErrorResponse writes one JSON response with success false. When the
\* error is or wraps a CustomError, status, code and message are those of
\* that CustomError, with INTERNAL_ERROR for an empty code and the default
\* text for an empty message; otherwise the status is 500, the code
\* INTERNAL_ERROR and the message the generic one, which is the text of none
\* of the errors in the chain.
C28_ErrorEnvelope ==
    jsonOut # <<>> =>
        /\ Len(jsonOut) = 1
        /\ LET m == jsonOut[1]
               ce == FirstCustom(errIn)
           IN  /\ ~m.body.success
               /\ m.body.data = <<>>
               /\ Len(m.body.error) = 1
               /\ m.body.error[1].message = m.body.message
               /\ IF ce.kind = "custom"
                    THEN /\ m.status = ce.HTTPStatus
                         /\ m.body.error[1].code =
                               IF ce.Code = "" THEN "INTERNAL_ERROR"
                               ELSE ce.Code
                         /\ m.body.message =
                               IF ce.Message = ""
                                 THEN "An unspecified custom error occurred."
                                 ELSE ce.Message
                    ELSE /\ m.status = StatusInternalServerError
                         /\ m.body.error[1].code = "INTERNAL_ERROR"
                         /\ m.body.message =
                               "An unexpected internal error occurred."
                         /\ \A i \in 1..Len(Chain(errIn)) :
                               m.body.message # Chain(errIn)[i].text

\* An error wrapping a CustomError with an empty code and status 400 was
\* answered with 400 and INTERNAL_ERROR.
C28_Witness ==
    /\ errIn.kind = "plain"
    /\ errIn.Err.kind = "custom"
    /\ errIn.Err.Code = ""
    /\ errIn.Err.HTTPStatus = StatusBadRequest
    /\ jsonOut # <<>>
    /\ jsonOut[1].status = StatusBadRequest
    /\ jsonOut[1].body.error[1].code = ErrCodeInternal

\* ------------------------------------------------------ RegisterCluster
\* Empty or made of white space only.
Blank(str) == \A i \in 1..Len(str) : IsSpace(str[i])

\* C29: a returned RegisterCluster call whose name or kubeconfig content is
\* blank gave INVALID_INPUT with status 400 and no cluster, and Create was
\* not called; otherwise Create was called once, its error, if any, is the
\* returned error itself and no cluster is returned; a cluster is returned
\* only when Create returned nil, and never before the call has returned.
C29_RegisterCluster ==
    /\ svcPc # "returned" => svcOut.cluster = NilCluster
    /\ svcPc = "returned" =>
          /\ (Blank(svcIn.name) \/ Blank(svcIn.kubeconfigContent)) =>
                /\ svcOut.cluster = NilCluster
                /\ svcOut.err.kind = "custom"
                /\ svcOut.err.Code = ErrCodeInvalidInput
                /\ svcOut.err.HTTPStatus = StatusBadRequest
                /\ repoLog = <<>>
          /\ ~(Blank(svcIn.name) \/ Blank(svcIn.kubeconfigContent)) =>
                /\ Len(repoLog) = 1
                /\ repoLog[1].cluster.Name = svcIn.name
                /\ repoLog[1].cluster.Kubeconfig = svcIn.kubeconfigContent
                /\ svcOut.err = repoLog[1].result
                /\ repoLog[1].result.kind # "nil" =>
                      svcOut.cluster = NilCluster
                /\ repoLog[1].result.kind = "nil" =>
                      /\ svcOut.cluster # NilCluster
                      /\ svcOut.cluster.Name = svcIn.name
          /\ svcOut.cluster # NilCluster =>
                /\ Len(repoLog) = 1
                /\ repoLog[1].result = NoErr

\* A name of white space only, with a usable content, was rejected.
C29_Witness ==
    /\ svcPc = "returned"
    /\ Len(svcIn.name) = 2
    /\ Blank(svcIn.name)
    /\ ~Blank(svcIn.kubeconfigContent)
    /\ svcOut.err.kind = "custom"
    /\ svcOut.err.Code = ErrCodeInvalidInput
    /\ repoLog = <<>>

\* ----------------------------------------------------------- LoadConfig
LoadReturned == {c \in LoadCalls : lpc[c] = "returned"}

\* C27: cleanenv.ReadConfig runs at most once and one call at most runs the
\* closure; a call returns only when the load is over, and every returned
\* call got the package's cfg pointer and loadErr, so all of them got the
\* same pair: after a failed load every one of them got the failure. Once
\* the load is over cfg and loadErr do not change.
C27_LoadOnce ==
    /\ [](/\ reads <= 1
          /\ Cardinality({c \in LoadCalls : loadArrival[c] = "fresh"}) <= 1
          /\ \A c \in LoadReturned :
                /\ loadOnce = "done"
                /\ reads = 1
                /\ loadResult[c].cfg = loadCfg
                /\ loadResult[c].cfg.ptr = 1
                /\ loadResult[c].err = loadErr
          /\ \A c1, c2 \in LoadReturned : loadResult[c1] = loadResult[c2]
          /\ (loadOnce = "done" /\ loadErr # "nil") =>
                \A c \in LoadReturned : loadResult[c].err = ErrReadConfig)
    /\ [][loadOnce = "done" =>
             /\ loadOnce' = "done"
             /\ loadCfg' = loadCfg
             /\ loadErr' = loadErr
             /\ reads' = reads]_vars

\* The load failed, and a call that did not run it has returned the
\* failure.
C27_Witness ==
    \E c \in LoadReturned :
        /\ loadArrival[c] # "fresh"
        /\ loadResult[c].err = ErrReadConfig
        /\ Cardinality(LoadReturned) >= 2

\* ----------------------------------------------------------------- main
\* C23: when InitKubernetesClient has returned an error to main, the
\* process does not exit: main goes on to build and start the server.
C23_ServesAfterInitFailure ==
    (pc[MainCall] = "returned" /\ initResult[MainCall] # NilError) =>
        mpc # "exited"

\* C24: when the database connection failed at startup, every health check
\* the running server has answered was answered with 500 and a report
\* whose database entry is DOWN.
C24_DatabaseFailureReported ==
    (mpc = "serving" /\ db = NilHandle) =>
        \A r \in Requests : Done(r) =>
            /\ Len(sent[r]) = 1
            /\ sent[r][1].status = StatusInternalServerError
            /\ ~sent[r][1].body.success
            /\ sent[r][1].body.error[1].data.Database.state = "DOWN"

\* C25: what GET /api/v1/healthz answers follows the dependencies behind
\* the handles given to InitializeRoutes: 500 when one that is configured
\* did not answer when the request was served, 200 only when all of them
\* did.
C25_HealthzAggregates ==
    mpc = "serving" =>
        \A r \in Requests : Done(r) =>
            /\ Len(sent[r]) = 1
            /\ (\E n \in Configured : ~seen[r][n]) =>
                  sent[r][1].status = StatusInternalServerError
            /\ sent[r][1].status = StatusOK =>
                  \A n \in Configured : seen[r][n]

\* C30: with a nil database handle no request runs into a fault: every
\* answered cluster registration got a JSON body, an error envelope when
\* it failed, and no health check called the database.
C30_NoNilDereference ==
    db = NilHandle =>
        /\ \A q \in Requests : creply[q] # <<>> =>
              /\ ~creply[q][1].fault
              /\ Len(creply[q][1].body) = 1
              /\ creply[q][1].status # StatusCreated =>
                    ~creply[q][1].body[1].success
        /\ \A r \in Requests : \A p \in Runs(r) : p.name = "kubernetes"

====
